---------------------------- MODULE Spec2Model ----------------------------
(***************************************************************************)
(* A model of pywebio/platform/tornado.py: the websocket handler built by  *)
(* webio_handler (WSHandler), its SingletonWSHandler specialisation and    *)
(* the bootstrap of start_server_in_current_thread_session.                *)
(*                                                                         *)
(* Four systems are described over one set of variables:                   *)
(*   Spec         one WSHandler connection served by start_server, under   *)
(*                either session implementation (AsyncBasedSession or      *)
(*                ThreadBasedWebIOSession);                                *)
(*   DTSpec       start_server_in_current_thread_session: the caller       *)
(*                thread, the Tornado-server thread, the liveness watcher  *)
(*                and the SingletonWSHandler connections with their        *)
(*                traffic (DTFairSpec adds fairness);                      *)
(*   BrowserSpec  the same server with its browser opener and the port     *)
(*                poller, without message traffic;                         *)
(*   StartSpec    start_server and _setup_server from the call to the      *)
(*                start of the loop: options, port resolution, listener.   *)
(*                                                                         *)
(* The Session classes live in pywebio/session and get_free_port and       *)
(* wait_host_port in pywebio/utils, which are not among the sources; the   *)
(* Session's behaviour is modelled from the specification's Session        *)
(* abstraction (construct / drainOutbound / submitInboundEvent / close):    *)
(* a Session running on the loop calls its two callbacks directly, one     *)
(* running on a worker thread posts them to the loop, which runs them in   *)
(* FIFO order.                                                             *)
(***************************************************************************)
EXTENDS Integers, Sequences, FiniteSets, TLC

(* ------------------------------ bounds -------------------------------- *)

\* connections that may be attempted in designated-thread mode
MaxConns == 2

\* outbound messages one Session may enqueue
MaxOut == 2

\* inbound payloads one connection may receive
MaxIn == 2

\* outbound messages the DesignatedThreadSession may enqueue
DTMaxOut == 1

\* inbound payloads the designated-thread server may receive in all
DTMaxIn == 1

\* clock ticks per time unit of asyncio.sleep
TicksPerUnit == 1

\* the port numbers in use on the host
MaxPort == 2

(* --------------------------- program constants ------------------------ *)

\* asyncio.sleep(1) inside the liveness loop of stoploop_after_thread_stop
PollInterval == 1

\* asyncio.sleep(1) after the thread was seen dead
GracePeriod == 1

Conns == 1..MaxConns

\* start_server is followed for one connection: WSHandler instances share
\* no state (each open builds its own Session).
WSConns == {1}

None == 0

VARIABLES
    sessionImpl,        \* get_session_implement(): "async" or "thread"
    connState,          \* per connection: new, open, closing, aborted, closed
    closeTag,           \* WSHandler._close_from_session_tag
    handlerSession,     \* WSHandler.session set on the instance (None if unset)
    singletonSession,   \* SingletonWSHandler.session (class attribute)
    sessVariant,        \* per session: none, async, thread, designated
    sessClosed,         \* Session closed flag
    onSessionClose,     \* the on_session_close callback given to the Session
    outq,               \* Session's pending outbound messages
    loopQueue,          \* callbacks posted to the event loop, FIFO
    frames,             \* per connection: frames written with write_message
    clientEvents,       \* per session: events given to send_client_event
    emitted,            \* history: every message the Session enqueued
    received,           \* history: every payload on_message was called with
    sessCloseCalls,     \* history: entries into the Session's close routine
    handlerCloses,      \* history: Session.close calls issued by on_close
    connCloseCalls,     \* history: self.close() calls on the connection
    closeOrigin,        \* history: none, session, transport, refused, abort
    writeFailed,        \* history: a write_message hit a closed connection
    handlerFailed,      \* history: an exception escaped on_message
    closeOutput,        \* history: frames written when self.close() was called
    sessLoop,           \* the loop= argument given to the Session: none, loop
    callbackRaised,     \* history: an exception escaped send_msg_to_client
    writers,            \* history: the threads that executed write_message
    lateEvents,         \* history: events forwarded to an already closed Session
    websocket_conn_opened, \* threading.Event of the designated-thread start
    callerPc,           \* start_server_in_current_thread_session's caller
    serverPc,           \* server_thread
    threadAlive,        \* the supervised thread's is_alive()
    watcherPc,          \* stoploop_after_thread_stop
    sleepLeft,          \* ticks left of the watcher's current sleep
    sinceDead,          \* ticks elapsed since the supervised thread ended
    sessionsCreated,    \* history: Session objects constructed by open
    openOrder,          \* history: the opens in order, [conn, firstOpen]: the
                        \* connection, and whether the first one was open then
    openResult,         \* history: per connection none, claimed, refused
    browserPc,          \* open_webbrowser_on_server_started: its position
    pollAttempts,       \* wait_host_port: connection attempts made
    is_open,            \* the value wait_host_port returned
    browserOpens,       \* history: webbrowser.open calls
    errorsLogged,       \* history: logger.error calls of the browser opener
    optPc,              \* start_server / _setup_server position
    kwargs,             \* start_server's four named options as passed
    settings,           \* tornado_app_settings: a set of <<key, value>>
    reqPort,            \* the port argument
    port,               \* _setup_server's local port
    freePorts,          \* the ports no process is bound to
    printedPort,        \* history: the port of the printed 'Listen on' line
    boundPort,          \* the port app.listen bound
    returnedPort        \* the port _setup_server returned

connVars == <<connState, closeTag, handlerSession>>
sessVars == <<sessVariant, sessClosed, onSessionClose, sessLoop, outq>>
histVars == <<emitted, received, sessCloseCalls, handlerCloses, connCloseCalls,
              closeOrigin, writeFailed, handlerFailed, closeOutput,
              callbackRaised, writers, lateEvents>>
dtVars == <<singletonSession, websocket_conn_opened, callerPc, serverPc,
            threadAlive, watcherPc, sleepLeft, sinceDead, sessionsCreated,
            openOrder, openResult>>
browserVars == <<browserPc, pollAttempts, is_open, browserOpens, errorsLogged>>
optVars == <<optPc, kwargs, settings, reqPort, port, freePorts, printedPort,
             boundPort, returnedPort>>
vars == <<sessionImpl, connVars, sessVars, loopQueue, frames, clientEvents,
          histVars, dtVars, browserVars, optVars>>

(* ------------------------------- JSON --------------------------------- *)
(* json.dumps and json.loads on the fragment of JSON made of non-negative  *)
(* integers and flat lists of them.  A text is a sequence of characters;   *)
(* a value is <<"num", digits>> or <<"list", <<digits, ...>>>>.            *)

Num(d) == <<"num", d>>
List(es) == <<"list", es>>

IsDigit(ch) == ch \in {"0", "1", "2", "3", "4", "5", "6", "7", "8", "9"}

RECURSIVE JoinItems(_)
JoinItems(es) ==
    IF es = <<>> THEN <<>>
    ELSE IF Len(es) = 1 THEN es[1]
    ELSE es[1] \o <<",", " ">> \o JoinItems(Tail(es))

\* json.dumps with the default separators (", ")
json_dumps(v) ==
    IF v[1] = "num" THEN v[2]
    ELSE <<"[">> \o JoinItems(v[2]) \o <<"]">>

\* the scanner: maximal digit runs, single punctuation marks, blanks skipped
RECURSIVE Lex(_, _, _, _)
Lex(t, i, inNum, acc) ==
    IF i > Len(t) THEN acc
    ELSE LET ch == t[i] IN
         IF IsDigit(ch)
         THEN IF inNum
              THEN Lex(t, i + 1, TRUE, [acc EXCEPT ![Len(acc)] = Append(@, ch)])
              ELSE Lex(t, i + 1, TRUE, Append(acc, <<ch>>))
         ELSE IF ch = " "
              THEN Lex(t, i + 1, FALSE, acc)
              ELSE Lex(t, i + 1, FALSE, Append(acc, <<ch>>))

IsNumber(tok) ==
    /\ tok # <<>>
    /\ \A i \in 1..Len(tok) : IsDigit(tok[i])
    /\ (Len(tok) > 1 => tok[1] # "0")

JsonError == <<"error", <<>>>>

\* json.loads: <<"ok", value>>, or JsonError where json.loads raises
json_loads(t) ==
    LET toks == Lex(t, 1, FALSE, <<>>)
        n == Len(toks)
    IN  IF n = 1 /\ IsNumber(toks[1]) THEN <<"ok", Num(toks[1])>>
        ELSE IF n >= 2 /\ toks[1] = <<"[">> /\ toks[n] = <<"]">>
        THEN LET inner == SubSeq(toks, 2, n - 1) IN
             IF inner = <<>> THEN <<"ok", List(<<>>)>>
             ELSE IF /\ Len(inner) % 2 = 1
                     /\ \A k \in 1..Len(inner) :
                           IF k % 2 = 1 THEN IsNumber(inner[k])
                           ELSE inner[k] = <<",">>
                  THEN <<"ok", List([j \in 1..((Len(inner) + 1) \div 2) |->
                                        inner[2 * j - 1]])>>
                  ELSE JsonError
        ELSE JsonError

WellFormed(t) == json_loads(t)[1] = "ok"

\* the messages a Session may enqueue
OutMsgs == {Num(<<"7">>), List(<<<<"1">>, <<"0">>>>)}

\* the payloads a client may send: two well-formed, two malformed
Payloads == {<<"1", "0">>, <<"[", "4", ",", "2", "]">>, <<"[", "1">>, <<"0", "1">>}

IsPrefix(s, t) == Len(s) <= Len(t) /\ SubSeq(t, 1, Len(s)) = s


(* --------------------------- initial states --------------------------- *)

InitCommon ==
    /\ connState = [c \in Conns |-> "new"]
    /\ closeTag = [c \in Conns |-> FALSE]
    /\ handlerSession = [c \in Conns |-> None]
    /\ singletonSession = None
    /\ sessVariant = [s \in Conns |-> "none"]
    /\ sessClosed = [s \in Conns |-> FALSE]
    /\ onSessionClose = [s \in Conns |-> "none"]
    /\ sessLoop = [s \in Conns |-> "none"]
    /\ outq = [s \in Conns |-> <<>>]
    /\ loopQueue = <<>>
    /\ frames = [c \in Conns |-> <<>>]
    /\ clientEvents = [s \in Conns |-> <<>>]
    /\ emitted = [s \in Conns |-> <<>>]
    /\ received = [c \in Conns |-> <<>>]
    /\ sessCloseCalls = [s \in Conns |-> 0]
    /\ handlerCloses = [c \in Conns |-> 0]
    /\ connCloseCalls = [c \in Conns |-> 0]
    /\ closeOrigin = [c \in Conns |-> "none"]
    /\ writeFailed = [c \in Conns |-> FALSE]
    /\ handlerFailed = [c \in Conns |-> FALSE]
    /\ closeOutput = [c \in Conns |-> <<>>]
    /\ callbackRaised = [c \in Conns |-> FALSE]
    /\ writers = [c \in Conns |-> {}]
    /\ lateEvents = [s \in Conns |-> 0]
    /\ websocket_conn_opened = FALSE
    /\ threadAlive = TRUE
    /\ watcherPc = "unspawned"
    /\ sleepLeft = 0
    /\ sinceDead = 0
    /\ sessionsCreated = 0
    /\ openOrder = <<>>
    /\ openResult = [c \in Conns |-> "none"]
    /\ browserPc = "unspawned"
    /\ pollAttempts = 0
    /\ is_open = FALSE
    /\ browserOpens = 0
    /\ errorsLogged = 0

\* start_server and _setup_server are not followed: their state is at rest
OptIdle ==
    /\ optPc = "idle"
    /\ kwargs = [opt \in {} |-> "None"]
    /\ settings = {}
    /\ reqPort = 0
    /\ port = 0
    /\ freePorts = {}
    /\ printedPort = 0
    /\ boundPort = 0
    /\ returnedPort = 0

\* start_server: the loop of line 124 is running, the setting is either one
Init ==
    /\ InitCommon
    /\ OptIdle
    /\ sessionImpl \in {"async", "thread"}
    /\ callerPc = "start_server"
    /\ serverPc = "running"

(* ------------------------ the Session abstraction --------------------- *)

\* python's attribute lookup of self.session: the instance attribute set by
\* WSHandler.open, else the class attribute SingletonWSHandler.session
SessionOf(c) ==
    IF handlerSession[c] # None THEN handlerSession[c] ELSE singletonSession

\* Session.close: the close routine is entered and the Session is closed
SessionClose(s) ==
    /\ sessClosed' = [sessClosed EXCEPT ![s] = TRUE]
    /\ sessCloseCalls' = [sessCloseCalls EXCEPT ![s] = @ + 1]

(* ------------------------------ WSHandler ----------------------------- *)

\* json.dumps applied to each message of a batch, in order
Dumps(msgs) == [i \in 1..Len(msgs) |-> json_dumps(msgs[i])]

\* a mis-ordered send loop: the batch is written last message first
WriteFramesReversed(fs, msgs) ==
    fs \o [i \in 1..Len(msgs) |-> json_dumps(msgs[Len(msgs) + 1 - i])]

\* for msg in ...: self.write_message(json.dumps(msg))
WriteFrames(fs, msgs) ==
    fs \o Dumps(msgs)

\* send_msg_to_client on handler c for session s, whose get_task_messages
\* yields `pending` and leaves the Session's queue empty; `by` is the thread
\* that runs the call.  write_message raises WebSocketClosedError once the
\* connection is closing or closed, and the method has no try/except: the
\* exception leaves it towards the caller of on_task_message.
send_msg_to_client(c, s, pending, by) ==
    /\ outq' = [outq EXCEPT ![s] = <<>>]
    /\ writers' = [writers EXCEPT ![c] = IF pending # <<>> THEN @ \cup {by} ELSE @]
    /\ IF connState[c] = "open"
       THEN /\ frames' = [frames EXCEPT ![c] = WriteFrames(@, pending)]
            /\ UNCHANGED <<writeFailed, callbackRaised>>
       ELSE /\ writeFailed' = [writeFailed EXCEPT ![c] = @ \/ pending # <<>>]
            /\ callbackRaised' = [callbackRaised EXCEPT ![c] = @ \/ pending # <<>>]
            /\ UNCHANGED frames

\* WebSocketHandler.close(), as called by the handler or by the Session
close(c) ==
    /\ connCloseCalls' = [connCloseCalls EXCEPT ![c] = @ + 1]
    /\ connState' = [connState EXCEPT ![c] = IF @ = "open" THEN "closing" ELSE @]
    /\ closeOrigin' = [closeOrigin EXCEPT ![c] = IF @ = "none" THEN "session" ELSE @]
    /\ closeOutput' = [closeOutput EXCEPT ![c] = IF connState[c] = "open" THEN frames[c] ELSE @]

close_from_session(c) ==
    /\ closeTag' = [closeTag EXCEPT ![c] = TRUE]
    /\ close(c)

\* an open that builds the thread-based Session without loop=
OpenNoLoop(c) ==
    /\ serverPc = "running"
    /\ connState[c] = "new"
    /\ connState' = [connState EXCEPT ![c] = "open"]
    /\ closeTag' = [closeTag EXCEPT ![c] = FALSE]
    /\ handlerSession' = [handlerSession EXCEPT ![c] = c]
    /\ sessionsCreated' = sessionsCreated + 1
    /\ IF sessionImpl = "async"
       THEN /\ sessVariant' = [sessVariant EXCEPT ![c] = "async"]
            /\ onSessionClose' = [onSessionClose EXCEPT ![c] = "close"]
            /\ sessLoop' = [sessLoop EXCEPT ![c] = "none"]
       ELSE /\ sessVariant' = [sessVariant EXCEPT ![c] = "thread"]
            /\ onSessionClose' = [onSessionClose EXCEPT ![c] = "close_from_session"]
            /\ sessLoop' = [sessLoop EXCEPT ![c] = "none"]
    /\ UNCHANGED <<sessionImpl, browserVars, optVars, sessClosed, outq,
                   loopQueue, frames, clientEvents,
                   histVars, singletonSession, websocket_conn_opened, callerPc,
                   serverPc, threadAlive, watcherPc, sleepLeft, sinceDead,
                   openOrder,
                   openResult>>

\* an open that ignores the setting and always builds the thread-based Session
OpenThreadOnly(c) ==
    /\ serverPc = "running"
    /\ connState[c] = "new"
    /\ connState' = [connState EXCEPT ![c] = "open"]
    /\ closeTag' = [closeTag EXCEPT ![c] = FALSE]
    /\ handlerSession' = [handlerSession EXCEPT ![c] = c]
    /\ sessionsCreated' = sessionsCreated + 1
    /\ sessVariant' = [sessVariant EXCEPT ![c] = "thread"]
    /\ onSessionClose' = [onSessionClose EXCEPT ![c] = "close_from_session"]
    /\ sessLoop' = [sessLoop EXCEPT ![c] = "loop"]
    /\ UNCHANGED <<sessionImpl, browserVars, optVars, sessClosed, outq,
                   loopQueue, frames, clientEvents,
                   histVars, singletonSession, websocket_conn_opened, callerPc,
                   serverPc, threadAlive, watcherPc, sleepLeft, sinceDead,
                   openOrder,
                   openResult>>

\* WSHandler.open
Open(c) ==
    /\ serverPc = "running"
    /\ connState[c] = "new"
    /\ connState' = [connState EXCEPT ![c] = "open"]
    /\ closeTag' = [closeTag EXCEPT ![c] = FALSE]
    /\ handlerSession' = [handlerSession EXCEPT ![c] = c]
    /\ sessionsCreated' = sessionsCreated + 1
    /\ IF sessionImpl = "async"
       THEN /\ sessVariant' = [sessVariant EXCEPT ![c] = "async"]
            /\ onSessionClose' = [onSessionClose EXCEPT ![c] = "close"]
            /\ sessLoop' = [sessLoop EXCEPT ![c] = "none"]
       ELSE /\ sessVariant' = [sessVariant EXCEPT ![c] = "thread"]
            /\ onSessionClose' = [onSessionClose EXCEPT ![c] = "close_from_session"]
            /\ sessLoop' = [sessLoop EXCEPT ![c] = "loop"]
    /\ UNCHANGED <<sessionImpl, browserVars, optVars, sessClosed, outq,
                   loopQueue, frames, clientEvents,
                   histVars, singletonSession, websocket_conn_opened, callerPc,
                   serverPc, threadAlive, watcherPc, sleepLeft, sinceDead,
                   openOrder,
                   openResult>>

\* a handler whose on_message is still dispatched after on_close has run
OnMessageAfterClose(c, raw) ==
    /\ connState[c] \in {"open", "closing", "closed"}
    /\ SessionOf(c) # None
    /\ Len(received[c]) < MaxIn
    /\ received' = [received EXCEPT ![c] = Append(@, raw)]
    /\ LET data == json_loads(raw) IN
       IF data[1] = "ok"
       THEN /\ clientEvents' = [clientEvents EXCEPT ![SessionOf(c)] = Append(@, data[2])]
            /\ lateEvents' = [lateEvents EXCEPT ![SessionOf(c)] =
                                  IF sessClosed[SessionOf(c)] THEN @ + 1 ELSE @]
            /\ UNCHANGED <<connState, handlerFailed, closeOrigin>>
       ELSE /\ handlerFailed' = [handlerFailed EXCEPT ![c] = TRUE]
            /\ connState' = [connState EXCEPT ![c] = "aborted"]
            /\ closeOrigin' = [closeOrigin EXCEPT ![c] = IF @ = "none" THEN "abort" ELSE @]
            /\ UNCHANGED <<clientEvents, lateEvents>>
    /\ UNCHANGED <<sessionImpl, browserVars, optVars, closeTag,
                   handlerSession, sessVars, loopQueue,
                   frames, emitted, sessCloseCalls, handlerCloses,
                   connCloseCalls,
                   writeFailed, callbackRaised, writers, closeOutput, dtVars>>

\* a handler that forwards the raw text instead of the parsed event
OnMessageRaw(c, raw) ==
    /\ connState[c] \in {"open", "closing"}
    /\ SessionOf(c) # None
    /\ Len(received[c]) < MaxIn
    /\ received' = [received EXCEPT ![c] = Append(@, raw)]
    /\ clientEvents' = [clientEvents EXCEPT ![SessionOf(c)] = Append(@, Num(raw))]
    /\ lateEvents' = [lateEvents EXCEPT ![SessionOf(c)] =
                          IF sessClosed[SessionOf(c)] THEN @ + 1 ELSE @]
    /\ UNCHANGED <<sessionImpl, browserVars, optVars, connVars, sessVars,
                   loopQueue, frames, emitted,
                   sessCloseCalls, handlerCloses, connCloseCalls, closeOrigin,
                   writeFailed, callbackRaised, writers, handlerFailed,
                   closeOutput, dtVars>>

\* WSHandler.on_message.  json.loads raises on a malformed payload; nothing
\* in the handler catches it, and tornado's callback runner logs an escaped
\* exception and aborts the connection.
OnMessage(c, raw) ==
    /\ connState[c] \in {"open", "closing"}
    /\ SessionOf(c) # None
    /\ Len(received[c]) < MaxIn
    /\ received' = [received EXCEPT ![c] = Append(@, raw)]
    /\ LET data == json_loads(raw) IN
       IF data[1] = "ok"
       THEN /\ clientEvents' = [clientEvents EXCEPT ![SessionOf(c)] = Append(@, data[2])]
            /\ lateEvents' = [lateEvents EXCEPT ![SessionOf(c)] =
                                  IF sessClosed[SessionOf(c)] THEN @ + 1 ELSE @]
            /\ UNCHANGED <<connState, handlerFailed, closeOrigin>>
       ELSE /\ handlerFailed' = [handlerFailed EXCEPT ![c] = TRUE]
            /\ connState' = [connState EXCEPT ![c] = "aborted"]
            /\ closeOrigin' = [closeOrigin EXCEPT ![c] = IF @ = "none" THEN "abort" ELSE @]
            /\ UNCHANGED <<clientEvents, lateEvents>>
    /\ UNCHANGED <<sessionImpl, browserVars, optVars, closeTag,
                   handlerSession, sessVars, loopQueue,
                   frames, emitted, sessCloseCalls, handlerCloses,
                   connCloseCalls,
                   writeFailed, callbackRaised, writers, closeOutput, dtVars>>

\* WSHandler.on_close: the transport reports the connection closed
OnClose(c) ==
    /\ connState[c] \in {"open", "closing", "aborted"}
    /\ connState' = [connState EXCEPT ![c] = "closed"]
    /\ closeOrigin' = [closeOrigin EXCEPT ![c] = IF @ = "none" THEN "transport" ELSE @]
    /\ IF ~closeTag[c]
       THEN /\ SessionClose(SessionOf(c))
            /\ handlerCloses' = [handlerCloses EXCEPT ![c] = @ + 1]
       ELSE UNCHANGED <<sessClosed, sessCloseCalls, handlerCloses>>
    /\ UNCHANGED <<sessionImpl, browserVars, optVars, closeTag,
                   handlerSession, sessVariant, onSessionClose, sessLoop,
                   outq, loopQueue, frames, clientEvents, emitted, received,
                   lateEvents,
                   connCloseCalls, writeFailed, callbackRaised, writers,
                   handlerFailed, closeOutput, dtVars>>

(* ----------------- the Session's side of the two callbacks ------------- *)

\* The task produces a message.  An AsyncBasedSession runs on the loop and
\* calls on_task_message at once; a thread-based Session posts the callback
\* to the loop it was given, and one that was given no loop calls it from
\* the thread of the task.
SessionEmit(s, m) ==
    /\ sessVariant[s] # "none"
    /\ ~sessClosed[s]
    /\ Len(emitted[s]) < MaxOut
    /\ emitted' = [emitted EXCEPT ![s] = Append(@, m)]
    /\ IF sessVariant[s] = "async"
       THEN /\ send_msg_to_client(s, s, Append(outq[s], m), "loop")
            /\ UNCHANGED loopQueue
       ELSE IF sessLoop[s] = "none"
       THEN /\ send_msg_to_client(s, s, Append(outq[s], m), "worker")
            /\ UNCHANGED loopQueue
       ELSE /\ outq' = [outq EXCEPT ![s] = Append(@, m)]
            /\ loopQueue' = Append(loopQueue, <<"task_message", s>>)
            /\ UNCHANGED <<frames, writeFailed, callbackRaised, writers>>
    /\ UNCHANGED <<sessionImpl, browserVars, optVars, connVars, sessVariant,
                   sessClosed, onSessionClose, sessLoop,
                   clientEvents, received, lateEvents, sessCloseCalls,
                   handlerCloses,
                   connCloseCalls, closeOrigin, handlerFailed, closeOutput,
                   dtVars>>

\* The task ends: the Session closes itself and signals on_session_close
\* (at once for an AsyncBasedSession or a Session without a loop, through
\* the loop for a thread-based one).
SessionSelfClose(s) ==
    /\ sessVariant[s] \in {"async", "thread"}
    /\ ~sessClosed[s]
    /\ SessionClose(s)
    /\ IF sessVariant[s] = "async" \/ sessLoop[s] = "none"
       THEN /\ IF onSessionClose[s] = "close_from_session"
               THEN close_from_session(s)
               ELSE close(s) /\ UNCHANGED closeTag
            /\ UNCHANGED loopQueue
       ELSE /\ loopQueue' = Append(loopQueue, <<"session_close", s>>)
            /\ UNCHANGED <<connState, closeTag, connCloseCalls, closeOrigin,
                           closeOutput>>
    /\ UNCHANGED <<sessionImpl, browserVars, optVars, handlerSession,
                   sessVariant, onSessionClose, sessLoop, outq,
                   frames, clientEvents, emitted, received, lateEvents,
                   handlerCloses,
                   writeFailed, callbackRaised, writers, handlerFailed, dtVars>>

\* the loop runs the oldest posted callback
RunCallback ==
    /\ loopQueue # <<>>
    /\ serverPc = "running"
    /\ loopQueue' = Tail(loopQueue)
    /\ LET kind == Head(loopQueue)[1]
           s == Head(loopQueue)[2]
       IN  IF kind = "task_message"
           THEN /\ send_msg_to_client(s, s, outq[s], "loop")
                /\ UNCHANGED <<connVars, connCloseCalls, closeOrigin,
                               closeOutput>>
           ELSE /\ IF onSessionClose[s] = "close_from_session"
                   THEN close_from_session(s)
                   ELSE close(s) /\ UNCHANGED closeTag
                /\ UNCHANGED <<handlerSession, outq, frames, writeFailed,
                               callbackRaised, writers>>
    /\ UNCHANGED <<sessionImpl, browserVars, optVars, sessVariant, sessClosed,
                   onSessionClose, sessLoop, clientEvents,
                   emitted, received, lateEvents, sessCloseCalls,
                   handlerCloses, handlerFailed,
                   dtVars>>

Next ==
    \/ \E c \in WSConns : Open(c)
    \/ \E c \in WSConns, raw \in Payloads : OnMessage(c, raw)
    \/ \E c \in WSConns : OnClose(c)
    \/ \E s \in WSConns, m \in OutMsgs : SessionEmit(s, m)
    \/ \E s \in WSConns : SessionSelfClose(s)
    \/ RunCallback

Spec == Init /\ [][Next]_vars


(* ------------------- claims about WSHandler (Spec) --------------------- *)

\* C1: the frames written to a connection are the serialised messages its
\* Session enqueued, one frame per message and in the enqueued order: they
\* are always a prefix of that sequence, and as long as no write has hit a
\* closed connection the frames followed by the still pending messages are
\* the whole enqueued sequence (nothing lost, duplicated, merged, reordered).
C1_OrderedDelivery ==
    \A c \in WSConns :
        /\ IsPrefix(frames[c], Dumps(emitted[c]))
        /\ (~writeFailed[c] => frames[c] \o Dumps(outq[c]) = Dumps(emitted[c]))

\* a thread-based Session's two different messages were drained by one
\* notification and written as two frames; the second notification is pending
C1_Witness ==
    /\ sessionImpl = "thread"
    /\ Len(frames[1]) = 2
    /\ frames[1][1] # frames[1][2]
    /\ loopQueue # <<>>
    /\ Head(loopQueue)[1] = "task_message"

\* C2: whichever side closes first, once the connection is closed and no
\* callback is left to run, the Session's close routine has been entered
\* exactly once and the connection has been closed at most once by the
\* handler: no close is missed and none is issued twice.
C2_ExactlyOneClose ==
    \A c \in WSConns :
        (connState[c] = "closed" /\ loopQueue = <<>>) =>
            /\ sessCloseCalls[c] = 1
            /\ connCloseCalls[c] <= 1

\* C3: after a Session enqueued its messages and then closed itself, the
\* transport saw every message before the close, and on_close issues no
\* Session.close call.
C3_SelfCloseThenNoHandlerClose ==
    \A c \in WSConns :
        (closeOrigin[c] = "session" /\ ~writeFailed[c]) =>
            /\ closeOutput[c] = Dumps(emitted[c])
            /\ handlerCloses[c] = 0

\* C7: a malformed payload is dropped without being forwarded, the handler
\* does not fail and the connection stays open for later messages.
C7_MalformedIsNonFatal ==
    \A c \in WSConns :
        (\E i \in 1..Len(received[c]) : ~WellFormed(received[c][i])) =>
            /\ ~handlerFailed[c]
            /\ closeOrigin[c] # "abort"
            /\ Len(clientEvents[c]) < Len(received[c])

\* C10: the events given to the Session's send_client_event are exactly the
\* parsed structures of the well-formed payloads received, each once and in
\* arrival order.
C10_ForwardsParsedEvents ==
    \A c \in WSConns :
        LET good == SelectSeq(received[c], WellFormed)
        IN  clientEvents[c] = [i \in 1..Len(good) |-> json_loads(good[i])[2]]

\* two different well-formed payloads arrived and were forwarded
C10_Witness ==
    /\ Len(clientEvents[1]) = 2
    /\ clientEvents[1][1] = Num(<<"1", "0">>)
    /\ clientEvents[1][2] = List(<<<<"4">>, <<"2">>>>)


(* ------------- start_server_in_current_thread_session ------------------ *)

\* what the single client of the designated-thread server sends and gets
DTPayloads == {<<"[", "4", ",", "2", "]">>, <<"[", "1">>}
DTOutMsgs == {Num(<<"7">>)}

DTInit ==
    /\ InitCommon
    /\ OptIdle
    /\ sessionImpl = "thread"
    /\ callerPc = "begin"
    /\ serverPc = "unstarted"

\* lines 167-168: the caller builds the Tornado-server thread and starts it
CallerStart ==
    /\ callerPc = "begin"
    /\ callerPc' = "waiting"
    /\ serverPc' = "setup"
    /\ UNCHANGED <<sessionImpl, browserVars, optVars, connVars, sessVars,
                   loopQueue, frames, clientEvents,
                   histVars, singletonSession, websocket_conn_opened,
                   threadAlive,
                   watcherPc, sleepLeft, sinceDead, sessionsCreated, openOrder,
                   openResult>>

\* a caller that does not wait for the event
CallerReturnNoWait ==
    /\ callerPc = "waiting"
    /\ callerPc' = "returned"
    /\ UNCHANGED <<sessionImpl, browserVars, optVars, connVars, sessVars,
                   loopQueue, frames, clientEvents,
                   histVars, singletonSession, websocket_conn_opened, serverPc,
                   threadAlive, watcherPc, sleepLeft, sinceDead,
                   sessionsCreated,
                   openOrder, openResult>>

\* line 170: websocket_conn_opened.wait() returns once the event is set
CallerReturn ==
    /\ callerPc = "waiting"
    /\ websocket_conn_opened
    /\ callerPc' = "returned"
    /\ UNCHANGED <<sessionImpl, browserVars, optVars, connVars, sessVars,
                   loopQueue, frames, clientEvents,
                   histVars, singletonSession, websocket_conn_opened, serverPc,
                   threadAlive, watcherPc, sleepLeft, sinceDead,
                   sessionsCreated,
                   openOrder, openResult>>

\* the supervised thread is the caller's: it ends after the call returned
\* and the code that follows it has run
ThreadExit ==
    /\ callerPc = "returned"
    /\ threadAlive
    /\ threadAlive' = FALSE
    /\ UNCHANGED <<sessionImpl, browserVars, optVars, connVars, sessVars,
                   loopQueue, frames, clientEvents,
                   histVars, singletonSession, websocket_conn_opened, callerPc,
                   serverPc, watcherPc, sleepLeft, sinceDead, sessionsCreated,
                   openOrder, openResult>>

\* server_thread up to IOLoop.start(): the listener is set up, the watcher
\* and the browser opener are spawned and the loop runs
ServerRun ==
    /\ serverPc = "setup"
    /\ serverPc' = "running"
    /\ watcherPc' = "start"
    /\ browserPc' = "polling"
    /\ UNCHANGED <<sessionImpl, pollAttempts, is_open, browserOpens,
                   errorsLogged, optVars, connVars, sessVars, loopQueue,
                   frames, clientEvents,
                   histVars, singletonSession, websocket_conn_opened, callerPc,
                   threadAlive, sleepLeft, sinceDead, sessionsCreated,
                   openOrder,
                   openResult>>

\* IOLoop.start() returns after the loop was stopped; server_thread ends
ServerExit ==
    /\ serverPc = "stopped"
    /\ serverPc' = "exited"
    /\ UNCHANGED <<sessionImpl, browserVars, optVars, connVars, sessVars,
                   loopQueue, frames, clientEvents,
                   histVars, singletonSession, websocket_conn_opened, callerPc,
                   threadAlive, watcherPc, sleepLeft, sinceDead,
                   sessionsCreated,
                   openOrder, openResult>>

PollTicks == PollInterval * TicksPerUnit
GraceTicks == GracePeriod * TicksPerUnit

\* the watcher has something to run now: its first step, or an expired sleep
WatcherReady ==
    /\ serverPc = "running"
    /\ \/ watcherPc = "start"
       \/ watcherPc \in {"poll_sleep", "grace_sleep"} /\ sleepLeft = 0

\* a watcher that never tests thread.is_alive(): it sleeps once and stops
WatcherStepBlind ==
    /\ WatcherReady
    /\ IF watcherPc = "grace_sleep"
       THEN /\ watcherPc' = "done"
            /\ serverPc' = "stopped"
            /\ UNCHANGED sleepLeft
       ELSE /\ watcherPc' = "grace_sleep"
            /\ sleepLeft' = GraceTicks
            /\ UNCHANGED serverPc
    /\ UNCHANGED <<sessionImpl, browserVars, optVars, connVars, sessVars,
                   loopQueue, frames, clientEvents,
                   histVars, singletonSession, websocket_conn_opened, callerPc,
                   threadAlive, sinceDead, sessionsCreated, openOrder,
                   openResult>>

\* a watcher whose grace sleep lasts twice the grace period
WatcherStepLongGrace ==
    /\ WatcherReady
    /\ IF watcherPc = "grace_sleep"
       THEN /\ watcherPc' = "done"
            /\ serverPc' = "stopped"
            /\ UNCHANGED sleepLeft
       ELSE /\ watcherPc' = IF threadAlive THEN "poll_sleep" ELSE "grace_sleep"
            /\ sleepLeft' = IF threadAlive THEN PollTicks ELSE 2 * GraceTicks
            /\ UNCHANGED serverPc
    /\ UNCHANGED <<sessionImpl, browserVars, optVars, connVars, sessVars,
                   loopQueue, frames, clientEvents,
                   histVars, singletonSession, websocket_conn_opened, callerPc,
                   threadAlive, sinceDead, sessionsCreated, openOrder,
                   openResult>>

\* stoploop_after_thread_stop, from one suspension point to the next:
\* while thread.is_alive(): sleep(1); then sleep(1); then IOLoop.stop()
WatcherStep ==
    /\ WatcherReady
    /\ IF watcherPc = "grace_sleep"
       THEN /\ watcherPc' = "done"
            /\ serverPc' = "stopped"
            /\ UNCHANGED sleepLeft
       ELSE /\ watcherPc' = IF threadAlive THEN "poll_sleep" ELSE "grace_sleep"
            /\ sleepLeft' = IF threadAlive THEN PollTicks ELSE GraceTicks
            /\ UNCHANGED serverPc
    /\ UNCHANGED <<sessionImpl, browserVars, optVars, connVars, sessVars,
                   loopQueue, frames, clientEvents,
                   histVars, singletonSession, websocket_conn_opened, callerPc,
                   threadAlive, sinceDead, sessionsCreated, openOrder,
                   openResult>>

\* One clock tick.  A sleep that has run out wakes its coroutine before
\* the clock moves on; sinceDead counts the ticks the loop keeps running
\* after the supervised thread ended (it saturates one past the deadline).
Tick ==
    /\ serverPc = "running"
    /\ ~WatcherReady
    /\ sleepLeft' = IF sleepLeft > 0 THEN sleepLeft - 1 ELSE 0
    /\ sinceDead' = IF ~threadAlive /\ sinceDead <= PollTicks + GraceTicks
                    THEN sinceDead + 1 ELSE sinceDead
    /\ UNCHANGED <<sessionImpl, browserVars, optVars, connVars, sessVars,
                   loopQueue, frames, clientEvents,
                   histVars, singletonSession, websocket_conn_opened, callerPc,
                   serverPc, threadAlive, watcherPc, sessionsCreated, openOrder,
                   openResult>>

\* the connection whose open ran first is open at this moment
FirstStillOpen ==
    openOrder # <<>> /\ connState[openOrder[1].conn] = "open"

\* an open that builds a Session for every connection
SingletonOpenAlways(c) ==
    /\ serverPc = "running"
    /\ connState[c] = "new"
    /\ openOrder' = Append(openOrder, [conn |-> c, firstOpen |-> FirstStillOpen])
    /\ singletonSession' = c
    /\ sessVariant' = [sessVariant EXCEPT ![c] = "designated"]
    /\ sessLoop' = [sessLoop EXCEPT ![c] = "loop"]
    /\ sessionsCreated' = sessionsCreated + 1
    /\ websocket_conn_opened' = TRUE
    /\ connState' = [connState EXCEPT ![c] = "open"]
    /\ openResult' = [openResult EXCEPT ![c] = "claimed"]
    /\ UNCHANGED <<sessionImpl, browserVars, optVars, closeTag,
                   handlerSession, sessClosed, onSessionClose,
                   outq, loopQueue, frames, clientEvents, emitted, received,
                   lateEvents,
                   sessCloseCalls, handlerCloses, connCloseCalls, closeOrigin,
                   writeFailed, callbackRaised, writers, handlerFailed,
                   closeOutput, callerPc, serverPc,
                   threadAlive, watcherPc, sleepLeft, sinceDead>>

\* an open that takes the slot whenever no Session is open
SingletonOpenReclaim(c) ==
    /\ serverPc = "running"
    /\ connState[c] = "new"
    /\ openOrder' = Append(openOrder, [conn |-> c, firstOpen |-> FirstStillOpen])
    /\ IF singletonSession = None \/ sessClosed[singletonSession]
       THEN /\ singletonSession' = c
            /\ sessVariant' = [sessVariant EXCEPT ![c] = "designated"]
            /\ sessLoop' = [sessLoop EXCEPT ![c] = "loop"]
            /\ sessionsCreated' = sessionsCreated + 1
            /\ websocket_conn_opened' = TRUE
            /\ connState' = [connState EXCEPT ![c] = "open"]
            /\ openResult' = [openResult EXCEPT ![c] = "claimed"]
            /\ UNCHANGED <<connCloseCalls, closeOrigin>>
       ELSE /\ connState' = [connState EXCEPT ![c] = "closing"]
            /\ connCloseCalls' = [connCloseCalls EXCEPT ![c] = @ + 1]
            /\ closeOrigin' = [closeOrigin EXCEPT ![c] = "refused"]
            /\ openResult' = [openResult EXCEPT ![c] = "refused"]
            /\ UNCHANGED <<singletonSession, sessVariant, sessLoop,
                           sessionsCreated, websocket_conn_opened>>
    /\ UNCHANGED <<sessionImpl, browserVars, optVars, closeTag,
                   handlerSession, sessClosed, onSessionClose,
                   outq, loopQueue, frames, clientEvents, emitted, received,
                   lateEvents,
                   sessCloseCalls, handlerCloses, writeFailed, callbackRaised,
                   writers, handlerFailed,
                   closeOutput, callerPc, serverPc, threadAlive, watcherPc,
                   sleepLeft, sinceDead>>

\* SingletonWSHandler.open: the first open builds the DesignatedThreadSession
\* (no on_session_close callback) and sets the event; any other is closed
SingletonOpen(c) ==
    /\ serverPc = "running"
    /\ connState[c] = "new"
    /\ openOrder' = Append(openOrder, [conn |-> c, firstOpen |-> FirstStillOpen])
    /\ IF singletonSession = None
       THEN /\ singletonSession' = c
            /\ sessVariant' = [sessVariant EXCEPT ![c] = "designated"]
            /\ sessLoop' = [sessLoop EXCEPT ![c] = "loop"]
            /\ sessionsCreated' = sessionsCreated + 1
            /\ websocket_conn_opened' = TRUE
            /\ connState' = [connState EXCEPT ![c] = "open"]
            /\ openResult' = [openResult EXCEPT ![c] = "claimed"]
            /\ UNCHANGED <<connCloseCalls, closeOrigin>>
       ELSE /\ connState' = [connState EXCEPT ![c] = "closing"]
            /\ connCloseCalls' = [connCloseCalls EXCEPT ![c] = @ + 1]
            /\ closeOrigin' = [closeOrigin EXCEPT ![c] = "refused"]
            /\ openResult' = [openResult EXCEPT ![c] = "refused"]
            /\ UNCHANGED <<singletonSession, sessVariant, sessLoop,
                           sessionsCreated, websocket_conn_opened>>
    /\ UNCHANGED <<sessionImpl, browserVars, optVars, closeTag,
                   handlerSession, sessClosed, onSessionClose,
                   outq, loopQueue, frames, clientEvents, emitted, received,
                   lateEvents,
                   sessCloseCalls, handlerCloses, writeFailed, callbackRaised,
                   writers, handlerFailed,
                   closeOutput, callerPc, serverPc, threadAlive, watcherPc,
                   sleepLeft, sinceDead>>

\* SingletonWSHandler.on_close: self.session is the class attribute, so any
\* connection's close reaches the one DesignatedThreadSession
SingletonOnClose(c) ==
    /\ serverPc = "running"
    /\ connState[c] \in {"open", "closing", "aborted"}
    /\ connState' = [connState EXCEPT ![c] = "closed"]
    /\ closeOrigin' = [closeOrigin EXCEPT ![c] = IF @ = "none" THEN "transport" ELSE @]
    /\ IF singletonSession # None
       THEN /\ SessionClose(SessionOf(c))
            /\ handlerCloses' = [handlerCloses EXCEPT ![c] = @ + 1]
       ELSE UNCHANGED <<sessClosed, sessCloseCalls, handlerCloses>>
    /\ UNCHANGED <<sessionImpl, browserVars, optVars, closeTag,
                   handlerSession, sessVariant, onSessionClose, sessLoop,
                   outq, loopQueue, frames, clientEvents, emitted, received,
                   lateEvents,
                   connCloseCalls, writeFailed, callbackRaised, writers,
                   handlerFailed, closeOutput, dtVars>>

\* the task, running in the supervised thread after the call returned,
\* produces a message
DTEmit(m) ==
    /\ singletonSession # None
    /\ callerPc = "returned"
    /\ threadAlive
    /\ Len(emitted[singletonSession]) < DTMaxOut
    /\ SessionEmit(singletonSession, m)

\* all inbound payloads received so far, over every connection
RECURSIVE TotalReceived(_)
TotalReceived(n) ==
    IF n = 0 THEN 0 ELSE Len(received[n]) + TotalReceived(n - 1)

\* inbound data is dispatched by the running loop
DTOnMessage(c, raw) ==
    /\ serverPc = "running"
    /\ TotalReceived(MaxConns) < DTMaxIn
    /\ OnMessage(c, raw)

\* connections are numbered in the order they arrive
NextToConnect(c) ==
    \A d \in Conns : d < c => connState[d] # "new"

DTNext ==
    \/ CallerStart
    \/ ServerRun
    \/ CallerReturn
    \/ ThreadExit
    \/ WatcherStep
    \/ Tick
    \/ ServerExit
    \/ \E c \in Conns : NextToConnect(c) /\ SingletonOpen(c)
    \/ \E c \in Conns : SingletonOnClose(c)
    \/ \E c \in Conns, raw \in DTPayloads : DTOnMessage(c, raw)
    \/ \E m \in DTOutMsgs : DTEmit(m)
    \/ RunCallback

DTSpec == DTInit /\ [][DTNext]_vars

\* the clock advances, the loop runs the coroutines and callbacks that are
\* ready, and a returned IOLoop.start() lets server_thread finish
DTFairSpec ==
    /\ DTSpec
    /\ WF_vars(Tick)
    /\ WF_vars(WatcherStep)
    /\ WF_vars(ServerExit)


(* ------------ claims about the designated-thread mode (DTSpec) --------- *)

Refused(c) == openResult[c] = "refused"

\* C4: a connection refused because the slot is taken leaves the existing
\* Session alone: its on_close issues no close call on that Session.
C4_RefusedLeavesSessionAlone ==
    \A c \in Conns : Refused(c) => handlerCloses[c] = 0

\* C5: the first connection to open claims the slot (a DesignatedThreadSession
\* is built for it), and every connection that opens while the first is
\* still open is refused: closed inside its open handler, once.
C5_FirstClaimsOthersRefused ==
    /\ openOrder # <<>> =>
          /\ openResult[openOrder[1].conn] = "claimed"
          /\ singletonSession = openOrder[1].conn
          /\ sessVariant[singletonSession] = "designated"
    /\ \A i \in 2..Len(openOrder) :
          openOrder[i].firstOpen =>
              /\ Refused(openOrder[i].conn)
              /\ connCloseCalls[openOrder[i].conn] = 1
              /\ connState[openOrder[i].conn] \notin {"new", "open"}

\* a second connection was opened and refused while the first is open
C5_Witness ==
    /\ Len(openOrder) = 2
    /\ openOrder[2].firstOpen
    /\ connState[openOrder[1].conn] = "open"
    /\ Refused(openOrder[2].conn)

\* C6: whatever opens and closes happened, at most one
\* DesignatedThreadSession was ever built, and the first open built it.
C6_AtMostOneSessionEver ==
    /\ sessionsCreated <= 1
    /\ Cardinality({s \in Conns : sessVariant[s] = "designated"}) <= 1
    /\ sessionsCreated = 1 =>
          /\ openOrder # <<>>
          /\ singletonSession = openOrder[1].conn
          /\ openResult[singletonSession] = "claimed"

\* a connection opened after the first one had closed, and built nothing
C6_Witness ==
    /\ Len(openOrder) = 2
    /\ ~openOrder[2].firstOpen
    /\ connState[openOrder[1].conn] = "closed"
    /\ sessionsCreated = 1

\* C8: while the loop runs, no more than a poll interval plus a grace
\* interval has passed since the supervised thread ended; and once the
\* thread has ended the loop is eventually stopped and IOLoop.start()
\* returns in server_thread.
C8_LoopStopsAfterThreadEnds ==
    /\ [](sinceDead <= PollTicks + GraceTicks)
    /\ [](~threadAlive => <>(serverPc = "exited"))

\* the thread ended right after a poll: the loop stopped at the deadline
C8_Witness ==
    /\ ~threadAlive
    /\ serverPc = "exited"
    /\ watcherPc = "done"
    /\ sinceDead = PollTicks + GraceTicks

\* C9: the call returns only after a connection opened and claimed the
\* slot: a returned call has the DesignatedThreadSession built before it,
\* and the event is set only together with that first, claiming open.
C9_ReturnsAfterFirstOpen ==
    /\ callerPc = "returned" => websocket_conn_opened
    /\ websocket_conn_opened =>
          /\ sessionsCreated = 1
          /\ singletonSession # None
          /\ openResult[openOrder[1].conn] = "claimed"
    /\ websocket_conn_opened <=> (singletonSession # None)

\* the call has returned, the one Session exists
C9_Witness ==
    /\ callerPc = "returned"
    /\ sessionsCreated = 1
    /\ sessVariant[singletonSession] = "designated"

(* --------------- further claims about WSHandler (Spec) ----------------- *)

\* C11: a write that fails inside send_msg_to_client because the connection
\* is closing or closed is not raised to the caller of on_task_message: the
\* invocation completes normally, no exception leaves send_msg_to_client.
C11_WriteFailureNotRaised ==
    \A c \in WSConns : writeFailed[c] => ~callbackRaised[c]

\* the variant the process-wide setting selects (lines 40-45)
SelectedVariant == IF sessionImpl = "async" THEN "async" ELSE "thread"

\* C16: WSHandler.open constructs exactly one Session, of the variant the
\* setting selects at open time, and the handler stays bound to it for the
\* connection's whole life: before open there is none, and after it neither
\* on_message nor close_from_session nor on_close replaces or rebuilds it.
C16_OneSessionOfSelectedVariant ==
    \A c \in WSConns :
        IF connState[c] = "new"
        THEN handlerSession[c] = None /\ sessionsCreated = 0
        ELSE /\ handlerSession[c] = c
             /\ sessionsCreated = 1
             /\ sessVariant[c] = SelectedVariant

\* an AsyncBasedSession's connection has received an event, was closed by
\* the Session and then by the transport, and is still bound to its Session
C16_Witness ==
    /\ sessionImpl = "async"
    /\ connState[1] = "closed"
    /\ connCloseCalls[1] >= 1
    /\ received[1] # <<>>
    /\ handlerSession[1] = 1
    /\ sessVariant[1] = "async"

ParsedOf(c) ==
    LET ok == SelectSeq(received[c], WellFormed)
    IN  [i \in 1..Len(ok) |-> json_loads(ok[i])[2]]

\* C18: a message received on a refused connection is never forwarded to the
\* existing Session: the events the Session was given are exactly those that
\* arrived on the connection that claimed it.
C18_OnlyClaimerDeliversEvents ==
    singletonSession # None =>
        clientEvents[singletonSession] = ParsedOf(singletonSession)

\* C19: the watcher never stops the loop while the supervised thread is
\* alive: it leaves its liveness loop only after seeing the thread dead, and
\* the loop is stopped only by the watcher after that, whatever connections
\* have opened or closed meanwhile.
C19_NoStopWhileThreadAlive ==
    /\ watcherPc \in {"grace_sleep", "done"} => ~threadAlive
    /\ serverPc \in {"stopped", "exited"} => ~threadAlive /\ watcherPc = "done"

\* the loop was stopped after the claiming client had disconnected and
\* another connection had been refused
C19_Witness ==
    /\ serverPc = "stopped"
    /\ ~threadAlive
    /\ connState[1] = "closed"
    /\ openResult[1] = "claimed"
    /\ openResult[2] = "refused"

(* ------------- the browser opener of the designated-thread mode --------- *)

\* wait_host_port(host, port, duration=5, delay=0.5): the time budget
WaitDuration == 5

\* the pause between two connection attempts, in tenths of a time unit
WaitDelayTenths == 5

\* the attempts that fit into the budget
MaxAttempts == (WaitDuration * 10) \div WaitDelayTenths

\* One connection attempt of wait_host_port.  The poller returns True at the
\* first attempt the port accepts, and False once the budget is used up.
wait_host_port ==
    /\ serverPc = "running"
    /\ browserPc = "polling"
    /\ pollAttempts < MaxAttempts
    /\ pollAttempts' = pollAttempts + 1
    /\ \E accepted \in BOOLEAN :
          IF accepted
          THEN is_open' = TRUE /\ browserPc' = "polled"
          ELSE IF pollAttempts + 1 = MaxAttempts
          THEN is_open' = FALSE /\ browserPc' = "polled"
          ELSE UNCHANGED <<is_open, browserPc>>
    /\ UNCHANGED <<sessionImpl, connVars, sessVars, loopQueue, frames,
                   clientEvents,
                   histVars, dtVars, browserOpens, errorsLogged, optVars>>

\* an opener that opens the browser whatever the poller returned
open_webbrowser_always ==
    /\ serverPc = "running"
    /\ browserPc = "polled"
    /\ browserPc' = "done"
    /\ browserOpens' = browserOpens + 1
    /\ UNCHANGED <<sessionImpl, connVars, sessVars, loopQueue, frames,
                   clientEvents,
                   histVars, dtVars, pollAttempts, is_open, errorsLogged,
                   optVars>>

\* an opener whose failure branch raises out of the loop and stops it
open_webbrowser_fatal ==
    /\ serverPc = "running"
    /\ browserPc = "polled"
    /\ browserPc' = "done"
    /\ IF is_open
       THEN browserOpens' = browserOpens + 1 /\ UNCHANGED <<errorsLogged,
                                                            serverPc>>
       ELSE serverPc' = "stopped" /\ UNCHANGED <<browserOpens, errorsLogged>>
    /\ UNCHANGED <<sessionImpl, connVars, sessVars, loopQueue, frames,
                   clientEvents,
                   histVars, singletonSession, websocket_conn_opened, callerPc,
                   threadAlive, watcherPc, sleepLeft, sinceDead,
                   sessionsCreated,
                   openOrder, openResult, pollAttempts, is_open, optVars>>

\* open_webbrowser_on_server_started after the poller returned (lines 67-70):
\* webbrowser.open(url) if is_open, else logger.error
open_webbrowser_on_server_started ==
    /\ serverPc = "running"
    /\ browserPc = "polled"
    /\ browserPc' = "done"
    /\ IF is_open
       THEN browserOpens' = browserOpens + 1 /\ UNCHANGED errorsLogged
       ELSE errorsLogged' = errorsLogged + 1 /\ UNCHANGED browserOpens
    /\ UNCHANGED <<sessionImpl, connVars, sessVars, loopQueue, frames,
                   clientEvents,
                   histVars, dtVars, pollAttempts, is_open, optVars>>

\* the designated-thread server with its two spawned coroutines and its
\* connections, without message traffic
BrowserNext ==
    \/ CallerStart
    \/ ServerRun
    \/ CallerReturn
    \/ ThreadExit
    \/ WatcherStep
    \/ Tick
    \/ ServerExit
    \/ \E c \in Conns : NextToConnect(c) /\ SingletonOpen(c)
    \/ \E c \in Conns : SingletonOnClose(c)
    \/ wait_host_port
    \/ open_webbrowser_on_server_started

BrowserSpec == DTInit /\ [][BrowserNext]_vars

(* -------------- claims about the browser opener (BrowserSpec) ---------- *)

\* C12: the browser is opened exactly once per run: when the opener has
\* finished, webbrowser.open has been called once.
C12_BrowserOpenedExactlyOnce ==
    browserPc = "done" => browserOpens = 1

\* C12 as it holds: the browser is opened at most once per run, and only
\* after the poller has confirmed that the port accepts connections; when
\* the poller has confirmed it, the opener opens the browser once.
C12_BrowserOnceAfterReachable ==
    /\ browserOpens <= 1
    /\ browserOpens = 1 => is_open /\ browserPc = "done" /\ pollAttempts >= 1
    /\ browserPc = "done" /\ is_open => browserOpens = 1

\* the port accepted at the third attempt and the browser was opened
C12_Witness ==
    /\ browserOpens = 1
    /\ pollAttempts = 3
    /\ is_open

\* C13: when the poller reports the port unreachable within its budget, the
\* opener only logs an error and does not open the browser, and nothing else
\* happens: the loop is stopped by nobody but the watcher, and while it
\* runs a new connection is still accepted.
C13_UnreachableOnlyLogs ==
    browserPc = "done" /\ ~is_open =>
        /\ pollAttempts = MaxAttempts
        /\ browserOpens = 0
        /\ errorsLogged = 1
        /\ serverPc \in {"stopped", "exited"} => watcherPc = "done"
        /\ \A c \in Conns :
              serverPc = "running" /\ connState[c] = "new" => ENABLED SingletonOpen(c)

\* the poller gave up, the error was logged, and the loop runs on with the
\* first connection still to come
C13_Witness ==
    /\ browserPc = "done"
    /\ ~is_open
    /\ errorsLogged = 1
    /\ serverPc = "running"
    /\ singletonSession = None
    /\ \A c \in Conns : connState[c] = "new"

(* ------------------- start_server and _setup_server -------------------- *)

Ports == 1..MaxPort

\* app_options (lines 115-116)
app_options ==
    {"debug", "websocket_max_message_size", "websocket_ping_interval",
     "websocket_ping_timeout"}

\* the defaults of start_server's signature (lines 87-91)
DefaultOf(opt) == IF opt = "debug" THEN "False" ELSE "None"

\* the values a caller may pass for an option
OptValues(opt) == IF opt = "debug" THEN {"False", "True"} ELSE {"None", "30"}

\* start_server(target, port, ...) has been called: the named options, the
\* pass-through settings and the port are the caller's, and any non-empty
\* set of ports is free
StartInit ==
    /\ InitCommon
    /\ sessionImpl \in {"async", "thread"}
    /\ callerPc = "start_server"
    /\ serverPc = "unstarted"
    /\ optPc = "called"
    /\ kwargs \in {f \in [app_options -> {"False", "True", "None", "30"}] :
                      \A opt \in app_options : f[opt] \in OptValues(opt)}
    /\ settings \in {{}, {<<"autoreload", "True">>}}
    /\ reqPort \in {0} \cup Ports
    /\ port = reqPort
    /\ freePorts \in (SUBSET Ports) \ {{}}
    /\ printedPort = 0
    /\ boundPort = 0
    /\ returnedPort = 0

\* lines 113-119: for opt in app_options: if kwargs[opt] is not None:
\* tornado_app_settings[opt] = kwargs[opt]
ApplyOptions ==
    /\ optPc = "called"
    /\ optPc' = "options_applied"
    /\ LET applied == {opt \in app_options : kwargs[opt] # "None"}
       IN  settings' = {kv \in settings : kv[1] \notin applied}
                          \cup {<<opt, kwargs[opt]>> : opt \in applied}
    /\ UNCHANGED <<sessionImpl, connVars, sessVars, loopQueue, frames,
                   clientEvents,
                   histVars, dtVars, browserVars, kwargs, reqPort, port,
                   freePorts,
                   printedPort, boundPort, returnedPort>>

\* get_free_port(): the ports it may return, those free when it probes
get_free_port == freePorts

\* lines 74-75: if port == 0: port = get_free_port()
SetupResolvePort ==
    /\ optPc = "options_applied"
    /\ optPc' = "resolved"
    /\ IF port = 0
       THEN \E p \in get_free_port : port' = p
       ELSE UNCHANGED port
    /\ UNCHANGED <<sessionImpl, connVars, sessVars, loopQueue, frames,
                   clientEvents,
                   histVars, dtVars, browserVars, kwargs, settings, reqPort,
                   freePorts, printedPort, boundPort, returnedPort>>

\* line 77: print('Listen on %s:%s' % (host or '0.0.0.0', port))
SetupPrint ==
    /\ optPc = "resolved"
    /\ optPc' = "printed"
    /\ printedPort' = port
    /\ UNCHANGED <<sessionImpl, connVars, sessVars, loopQueue, frames,
                   clientEvents,
                   histVars, dtVars, browserVars, kwargs, settings, reqPort,
                   port,
                   freePorts, boundPort, returnedPort>>

\* a listen on the port the caller asked for: for port 0 the system picks
SetupListenRequested ==
    /\ optPc = "printed"
    /\ IF reqPort = 0
       THEN \E p \in freePorts :
               /\ boundPort' = p
               /\ freePorts' = freePorts \ {p}
               /\ optPc' = "listening"
       ELSE IF reqPort \in freePorts
       THEN /\ boundPort' = reqPort
            /\ freePorts' = freePorts \ {reqPort}
            /\ optPc' = "listening"
       ELSE /\ optPc' = "bind_failed"
            /\ UNCHANGED <<boundPort, freePorts>>
    /\ UNCHANGED <<sessionImpl, connVars, sessVars, loopQueue, frames,
                   clientEvents,
                   histVars, dtVars, browserVars, kwargs, settings, reqPort,
                   port,
                   printedPort, returnedPort>>

\* lines 79-83: the handlers are registered and app.listen(port, address=host)
\* binds the listener; it raises if the port is no longer free
SetupListen ==
    /\ optPc = "printed"
    /\ IF port \in freePorts
       THEN /\ boundPort' = port
            /\ freePorts' = freePorts \ {port}
            /\ optPc' = "listening"
       ELSE /\ optPc' = "bind_failed"
            /\ UNCHANGED <<boundPort, freePorts>>
    /\ UNCHANGED <<sessionImpl, connVars, sessVars, loopQueue, frames,
                   clientEvents,
                   histVars, dtVars, browserVars, kwargs, settings, reqPort,
                   port,
                   printedPort, returnedPort>>

\* line 84: return server, port
SetupReturn ==
    /\ optPc = "listening"
    /\ optPc' = "returned"
    /\ returnedPort' = port
    /\ UNCHANGED <<sessionImpl, connVars, sessVars, loopQueue, frames,
                   clientEvents,
                   histVars, dtVars, browserVars, kwargs, settings, reqPort,
                   port,
                   freePorts, printedPort, boundPort>>

\* line 124: tornado.ioloop.IOLoop.current().start()
LoopStart ==
    /\ optPc = "returned"
    /\ optPc' = "serving"
    /\ serverPc' = "running"
    /\ UNCHANGED <<sessionImpl, connVars, sessVars, loopQueue, frames,
                   clientEvents,
                   histVars, singletonSession, websocket_conn_opened, callerPc,
                   threadAlive, watcherPc, sleepLeft, sinceDead,
                   sessionsCreated,
                   openOrder, openResult, browserVars, kwargs, settings,
                   reqPort,
                   port, freePorts, printedPort, boundPort, returnedPort>>

\* another process binds a free port while the listener is not bound yet
PortTaken ==
    /\ optPc \in {"called", "options_applied", "resolved", "printed"}
    /\ \E p \in freePorts : freePorts' = freePorts \ {p}
    /\ UNCHANGED <<sessionImpl, connVars, sessVars, loopQueue, frames,
                   clientEvents,
                   histVars, dtVars, browserVars, optPc, kwargs, settings,
                   reqPort,
                   port, printedPort, boundPort, returnedPort>>

StartNext ==
    \/ ApplyOptions
    \/ SetupResolvePort
    \/ SetupPrint
    \/ SetupListen
    \/ SetupReturn
    \/ LoopStart
    \/ PortTaken

StartSpec == StartInit /\ [][StartNext]_vars

(* ---------------- claims about start_server (StartSpec) ---------------- *)

\* C14: once start_server has gone through its options, each of the four
\* named options is in the application settings if and only if the caller
\* passed a value other than its default; an option left at its default is
\* not applied.
C14_AppliedIffNonDefault ==
    optPc \notin {"idle", "called"} =>
        \A opt \in app_options :
            (\E kv \in settings : kv[1] = opt) <=> kwargs[opt] # DefaultOf(opt)

\* C15: for a requested port 0, _setup_server has a concrete non-zero port
\* before it binds, binds the listener on exactly that port, has printed
\* that port, and has printed and returned it before the loop is started.
C15_ResolvedPortBoundAndReported ==
    reqPort = 0 /\ optPc # "idle" =>
        /\ optPc \in {"called", "options_applied", "resolved", "printed", "bind_failed"}
              => boundPort = 0
        /\ optPc \notin {"called", "options_applied"} => port \in Ports
        /\ optPc \in {"listening", "returned", "serving"}
              => boundPort = port /\ printedPort = port
        /\ optPc \in {"returned", "serving"} => returnedPort = port
        /\ serverPc = "running"
              => /\ optPc = "serving"
                 /\ boundPort # 0
                 /\ printedPort = boundPort
                 /\ returnedPort = boundPort

\* port 0 was requested with two ports free, the second was resolved, bound,
\* printed and returned, and the loop runs
C15_Witness ==
    /\ reqPort = 0
    /\ serverPc = "running"
    /\ boundPort = 2
    /\ printedPort = 2
    /\ returnedPort = 2
    /\ 1 \in freePorts

=========================================================================
